---- MODULE Spec2Model ----
(***************************************************************************)
(* Model of update-sub-store-node (src/main.go): main resolves the latest  *)
(* LTS version, then runs one goroutine per entry of the platform matrix,  *)
(* gated by a buffered channel used as a counting semaphore.  Each         *)
(* goroutine runs processTarget: download -> extract -> compress, working  *)
(* on three files derived from the target's output file name.              *)
(*                                                                         *)
(* Environment: the working directory starts without any of the derived    *)
(* files.  Every call whose error the code inspects may fail.  The final   *)
(* flush of the zstd encoder (enc.Close) may fail too, its error being     *)
(* dropped by the defer.  os.Remove of a closed file and Stat of an open   *)
(* handle are taken to succeed.                                            *)
(***************************************************************************)
EXTENDS Integers, Sequences, FiniteSets, TLC

(* ---------------------------------------------------------------------- *)
(* Bounds of the exploration                                              *)
(* ---------------------------------------------------------------------- *)

\* number of entries of the platform matrix the explored batch runs
NumTargets == 4

\* number of environment failures (failed calls) injected into one batch
MaxFaults == 1

(* ---------------------------------------------------------------------- *)
(* Program constants                                                      *)
(* ---------------------------------------------------------------------- *)

\* src/main.go:65  sem := make(chan struct{}, 3)
SemCap == 3

\* src/main.go:24-33  the platform matrix: output file name -> platform.
\* A platform identifier is kept as its sequence of characters, so that
\* strings.HasPrefix is computed rather than assumed.
targets ==
  [ node_darwin_amd64  |-> <<"d","a","r","w","i","n","-","x","6","4">>,
    node_darwin_arm64  |-> <<"d","a","r","w","i","n","-","a","r","m","6","4">>,
    node_linux_amd64   |-> <<"l","i","n","u","x","-","x","6","4">>,
    node_linux_arm64   |-> <<"l","i","n","u","x","-","a","r","m","6","4">>,
    node_linux_armv7   |-> <<"l","i","n","u","x","-","a","r","m","v","7","l">>,
    node_windows_amd64 |-> <<"w","i","n","-","x","6","4">>,
    node_windows_arm64 |-> <<"w","i","n","-","a","r","m","6","4">>,
    node_windows_i386  |-> <<"w","i","n","-","x","8","6">> ]

\* The order in which the explored batch takes entries from the matrix (Go
\* ranges over a map in an unspecified order); it alternates both archive
\* formats so that every batch contains zip and tar.xz targets.
MatrixOrder ==
  << "node_linux_amd64", "node_windows_amd64", "node_darwin_arm64",
     "node_windows_i386", "node_linux_armv7", "node_windows_arm64",
     "node_darwin_amd64", "node_linux_arm64" >>

\* the targets of the explored batch
Targets ==
  { MatrixOrder[i] : i \in 1..(IF NumTargets < Len(MatrixOrder)
                               THEN NumTargets ELSE Len(MatrixOrder)) }

(* ---------------------------------------------------------------------- *)
(* Strings and paths                                                      *)
(* ---------------------------------------------------------------------- *)

\* strings.HasPrefix(s, prefix)
HasPrefix(s, prefix) ==
  /\ Len(s) >= Len(prefix)
  /\ SubSeq(s, 1, Len(prefix)) = prefix

WinPrefix == <<"w","i","n">>

\* a path is the output file name followed by a suffix ("" for the output
\* file itself); the ".zst" extension common to all names is left implicit
Suffixes == {"", ".tmp", ".nodebin"}

\* one temp file name used for every target
tmpFileShared(outFile) == <<"node_linux_amd64", ".tmp">>

\* src/main.go:108  tmpFile := outFile + ".tmp"
tmpFile(outFile) == <<outFile, ".tmp">>

\* src/main.go:114  exeFile := outFile + ".nodebin"
exeFile(outFile) == <<outFile, ".nodebin">>

\* the output path handed to compressZstd (src/main.go:125)
outPath(outFile) == <<outFile, "">>

\* the paths the explored batch derives
Paths == Targets \X Suffixes

\* buildURL taking every platform but linux for a zip platform
buildURLLinuxOnly(version, platform) ==
  LET ext == IF HasPrefix(platform, <<"l","i","n","u","x">>)
             THEN ".tar.xz" ELSE ".zip"
  IN  << "https://nodejs.org/dist/", version, "/node-", version, "-",
         platform, ext >>

\* src/main.go:132-139  buildURL: the parts of the formatted URL, in order
buildURL(version, platform) ==
  LET ext == IF HasPrefix(platform, WinPrefix) THEN ".zip" ELSE ".tar.xz"
  IN  << "https://nodejs.org/dist/", version, "/node-", version, "-",
         platform, ext >>

\* src/main.go:115-123  the extractor processTarget calls for a platform
extractorFor(platform) ==
  IF HasPrefix(platform, WinPrefix) THEN "zip" ELSE "tar.xz"

(* ---------------------------------------------------------------------- *)
(* Version resolution                                                     *)
(* ---------------------------------------------------------------------- *)

\* A decoded "lts" field (interface{}): a JSON boolean, null/absent, or a
\* string, kept as << kind, text >>.
LtsFalse == <<"bool", "false">>
LtsNull  == <<"null", "">>
LtsName(n) == <<"string", n>>
LtsTrue  == <<"bool", "true">>

\* what the index endpoint may answer in the explored batches
IndexResponses ==
  { [status |-> "transport", body |-> << >>],
    [status |-> "decode",    body |-> << >>],
    [status |-> "ok", body |-> << [version |-> "v1", lts |-> LtsFalse] >>],
    [status |-> "ok", body |-> << [version |-> "v3", lts |-> LtsFalse],
                                  [version |-> "v2", lts |-> LtsName("Jod")],
                                  [version |-> "v1", lts |-> LtsName("Iron")] >>] }

\* the scan with the test `v.LTS != false` alone
firstLTSNotFalse(versions) ==
  LET hits == { i \in 1..Len(versions) : versions[i].lts # LtsFalse }
  IN  IF hits = {}
      THEN [version |-> "", err |-> "no LTS version found"]
      ELSE [version |-> versions[CHOOSE i \in hits : \A j \in hits : i <= j].version,
            err |-> "nil"]

\* src/main.go:96-101  the scan of the decoded descriptors
firstLTS(versions) ==
  LET hits == { i \in 1..Len(versions) :
                  versions[i].lts # LtsFalse /\ versions[i].lts # LtsNull }
  IN  IF hits = {}
      THEN [version |-> "", err |-> "no LTS version found"]
      ELSE [version |-> versions[CHOOSE i \in hits : \A j \in hits : i <= j].version,
            err |-> "nil"]

\* src/main.go:85-102  fetchLatestLTS
fetchLatestLTS(rsp) ==
  IF rsp.status = "transport" THEN [version |-> "", err |-> "http.Get(index)"]
  ELSE IF rsp.status = "decode" THEN [version |-> "", err |-> "json.Decode"]
  ELSE firstLTS(rsp.body)

(* ---------------------------------------------------------------------- *)
(* The file system and the three stages                                   *)
(* ---------------------------------------------------------------------- *)

\* a path holds no file, a file whose writing was cut short, or a file
\* written to its end
FileStates == {"absent", "partial", "complete"}

\* os.Remove(path)
Remove(files, path) == [files EXCEPT ![path] = "absent"]

\* the calls of downloadFile that can fail
DownloadFaults == {"http.Get", "os.Create(tmp)", "io.Copy(download)"}

\* src/main.go:141-158  downloadFile
downloadFile(files, filename, fault) ==
  IF fault = "http.Get" THEN [err |-> fault, fs |-> files]
  ELSE IF fault = "os.Create(tmp)" THEN [err |-> fault, fs |-> files]
  ELSE IF fault = "io.Copy(download)"
       THEN [err |-> fault, fs |-> [files EXCEPT ![filename] = "partial"]]
  ELSE [err |-> "nil", fs |-> [files EXCEPT ![filename] = "complete"]]

\* the calls of extractNodeFromZip that can fail, and a missing entry
ZipFaults ==
  {"zip.OpenReader", "node.exe not found", "zip.File.Open",
   "os.Create(exe)", "io.Copy(extract)"}

\* src/main.go:160-187  extractNodeFromZip
extractNodeFromZip(files, zipPath, outFile, fault) ==
  IF files[zipPath] = "absent" \/ fault = "zip.OpenReader"
  THEN [err |-> "zip.OpenReader", fs |-> files]
  ELSE IF fault \in {"node.exe not found", "zip.File.Open", "os.Create(exe)"}
       THEN [err |-> fault, fs |-> files]
  ELSE IF fault = "io.Copy(extract)"
       THEN [err |-> fault, fs |-> [files EXCEPT ![outFile] = "partial"]]
  ELSE [err |-> "nil", fs |-> [files EXCEPT ![outFile] = "complete"]]

\* the calls of extractNodeFromTarXZ that can fail, and a missing entry
TarFaults ==
  {"os.Open(tmp)", "xz.NewReader", "tar.Next", "bin/node not found",
   "os.Create(exe)", "io.Copy(extract)"}

\* extractNodeFromTarXZ returning nil when the scan finds no bin/node
extractNodeFromTarXZNotFoundNil(files, tarxzPath, outFile, fault) ==
  IF files[tarxzPath] = "absent" \/ fault = "os.Open(tmp)"
  THEN [err |-> "os.Open(tmp)", fs |-> files]
  ELSE IF fault = "bin/node not found" THEN [err |-> "nil", fs |-> files]
  ELSE IF fault \in {"xz.NewReader", "tar.Next", "os.Create(exe)"}
       THEN [err |-> fault, fs |-> files]
  ELSE IF fault = "io.Copy(extract)"
       THEN [err |-> fault, fs |-> [files EXCEPT ![outFile] = "partial"]]
  ELSE [err |-> "nil", fs |-> [files EXCEPT ![outFile] = "complete"]]

\* src/main.go:189-223  extractNodeFromTarXZ
extractNodeFromTarXZ(files, tarxzPath, outFile, fault) ==
  IF files[tarxzPath] = "absent" \/ fault = "os.Open(tmp)"
  THEN [err |-> "os.Open(tmp)", fs |-> files]
  ELSE IF fault \in {"xz.NewReader", "tar.Next", "bin/node not found",
                     "os.Create(exe)"}
       THEN [err |-> fault, fs |-> files]
  ELSE IF fault = "io.Copy(extract)"
       THEN [err |-> fault, fs |-> [files EXCEPT ![outFile] = "partial"]]
  ELSE [err |-> "nil", fs |-> [files EXCEPT ![outFile] = "complete"]]

\* the calls of compressZstd that can fail; "zstd.Close" is the deferred
\* enc.Close(), whose error is dropped
CompressFaults ==
  {"os.Open(exe)", "os.Create(out)", "zstd.NewWriter", "io.Copy(compress)",
   "zstd.Close"}

\* src/main.go:225-249  compressZstd
compressZstd(files, input, output, fault) ==
  IF files[input] = "absent" \/ fault = "os.Open(exe)"
  THEN [err |-> "os.Open(exe)", fs |-> files]
  ELSE IF fault = "os.Create(out)" THEN [err |-> fault, fs |-> files]
  ELSE IF fault \in {"zstd.NewWriter", "io.Copy(compress)"}
       THEN [err |-> fault, fs |-> [files EXCEPT ![output] = "partial"]]
  ELSE IF fault = "zstd.Close"
       THEN [err |-> "nil", fs |-> [files EXCEPT ![output] = "partial"]]
  ELSE [err |-> "nil", fs |-> [files EXCEPT ![output] = "complete"]]

\* the stage an error value comes from
StageOf(e) ==
  IF e \in DownloadFaults THEN "download"
  ELSE IF e \in ZipFaults \cup TarFaults THEN "extract"
  ELSE IF e \in CompressFaults THEN "compress"
  ELSE "none"

(* ---------------------------------------------------------------------- *)
(* State                                                                  *)
(* ---------------------------------------------------------------------- *)

VARIABLES
  mainpc,    \* where main is: "fetch", "launch", "wait", "done", "panicked"
  version,   \* main's version ("" until resolved)
  wg,        \* counter of the sync.WaitGroup
  sem,       \* number of tokens in the buffered channel sem
  pc,        \* per target: where its goroutine is
  printed,   \* per target: outcome line printed ("none" until then)
  url,       \* per target: URL built by processTarget (<< >> until built)
  fs,        \* state of every derived path
  faults,    \* number of failed calls so far in this batch
  call,      \* one run of the version / URL / format-dispatch data path
  arc,       \* one run of an extractor over the entries of an archive
  stream     \* one stream instrumented by a ProgressWriter

vars ==
  <<mainpc, version, wg, sem, pc, printed, url, fs, faults, call, arc, stream>>

\* the batch as a whole
batchVars == <<mainpc, version, wg, sem, pc, printed, url, fs, faults>>

\* the single functions, explored on their own inputs
unitVars == <<call, arc, stream>>

\* value of a unit variable in the specifications that do not use it
Unused == "unused"

\* "idle": not started; "waiting": blocked on sem <- struct{}{};
\* "acquired", "downloaded", "extracted": inside processTarget;
\* "reported": processTarget returned and the outcome line is printed, the
\* goroutine's deferred calls still to run;
\* "released": <-sem done; "done": wg.Done() done
OutcomeLines == {"none", "ok", "download", "extract", "compress"}

PcValues ==
  {"idle", "waiting", "acquired", "downloaded", "extracted", "reported",
   "released", "done"}

TypeOK ==
  /\ mainpc \in {"fetch", "launch", "wait", "done", "panicked"}
  /\ version \in {"", "v1", "v2", "v3"}
  /\ wg \in 0..Cardinality(Targets)
  /\ sem \in 0..SemCap
  /\ pc \in [Targets -> PcValues]
  /\ printed \in [Targets -> OutcomeLines]
  /\ fs \in [Paths -> FileStates]
  /\ faults \in 0..MaxFaults

BatchInit ==
  /\ mainpc = "fetch"
  /\ version = ""
  /\ wg = 0
  /\ sem = 0
  /\ pc = [t \in Targets |-> "idle"]
  /\ printed = [t \in Targets |-> "none"]
  /\ url = [t \in Targets |-> << >>]
  /\ fs = [p \in Paths |-> "absent"]
  /\ faults = 0

Init ==
  /\ BatchInit
  /\ call = Unused
  /\ arc = Unused
  /\ stream = Unused

\* a call may fail only while the batch's failure budget lasts
MayFail(fault) == fault = "none" \/ faults < MaxFaults

Charge(fault) == IF fault = "none" THEN faults ELSE faults + 1

(* ---------------------------------------------------------------------- *)
(* main                                                                   *)
(* ---------------------------------------------------------------------- *)

\* Fetch with the error of fetchLatestLTS ignored
FetchIgnoringError ==
  /\ mainpc = "fetch"
  /\ \E rsp \in IndexResponses :
       /\ mainpc' = "launch"
       /\ version' = fetchLatestLTS(rsp).version
  /\ UNCHANGED <<unitVars, wg, sem, pc, printed, url, fs, faults>>

\* src/main.go:56-60  resolve the version, panic on error
Fetch ==
  /\ mainpc = "fetch"
  /\ \E rsp \in IndexResponses :
       LET r == fetchLatestLTS(rsp)
       IN  IF r.err # "nil"
           THEN /\ mainpc' = "panicked"
                /\ version' = version
           ELSE /\ mainpc' = "launch"
                /\ version' = r.version
  /\ UNCHANGED <<unitVars, wg, sem, pc, printed, url, fs, faults>>

\* src/main.go:62-79  wg.Add(len(targets)), make the channel, start one
\* goroutine per target (each first registers defer wg.Done())
Launch ==
  /\ mainpc = "launch"
  /\ mainpc' = "wait"
  /\ wg' = wg + Cardinality(Targets)
  /\ sem' = 0
  /\ pc' = [t \in Targets |-> "waiting"]
  /\ UNCHANGED <<unitVars, version, printed, url, fs, faults>>

\* Finish without wg.Wait()
FinishWithoutWait ==
  /\ mainpc = "wait"
  /\ mainpc' = "done"
  /\ UNCHANGED <<unitVars, version, wg, sem, pc, printed, url, fs, faults>>

\* src/main.go:81-82  wg.Wait() returns, the batch-complete line is printed
Finish ==
  /\ mainpc = "wait"
  /\ wg = 0
  /\ mainpc' = "done"
  /\ UNCHANGED <<unitVars, version, wg, sem, pc, printed, url, fs, faults>>

(* ---------------------------------------------------------------------- *)
(* The goroutine of one target                                            *)
(* ---------------------------------------------------------------------- *)

\* Acquire on a channel that never fills
AcquireUnbounded(t) ==
  /\ pc[t] = "waiting"
  /\ sem' = sem + 1
  /\ pc' = [pc EXCEPT ![t] = "acquired"]
  /\ UNCHANGED <<unitVars, mainpc, version, wg, printed, url, fs, faults>>

\* src/main.go:70  sem <- struct{}{} : blocks while the channel is full
Acquire(t) ==
  /\ pc[t] = "waiting"
  /\ sem < SemCap
  /\ sem' = sem + 1
  /\ pc' = [pc EXCEPT ![t] = "acquired"]
  /\ UNCHANGED <<unitVars, mainpc, version, wg, printed, url, fs, faults>>

\* the removal of the temp file left out
deferRemoveTmpDropped(files, outFile) == files

\* src/main.go:112  the deferred os.Remove(tmpFile), run when processTarget
\* returns after the download succeeded
deferRemoveTmp(files, outFile) == Remove(files, tmpFile(outFile))

\* the success line printed whatever processTarget returned
reportAlwaysOk(e) == "ok"

\* src/main.go:73-77  the outcome line of a target: success, or failure
\* with the error, kept as the stage the error comes from
report(e) == IF e = "nil" THEN "ok" ELSE StageOf(e)

\* src/main.go:105-112, 73-77  build the URL and download it to the temp
\* file; on error processTarget returns it and the failure line is printed
Download(t) ==
  /\ pc[t] = "acquired"
  /\ \E fault \in DownloadFaults \cup {"none"} :
       /\ MayFail(fault)
       /\ faults' = Charge(fault)
       /\ LET r == downloadFile(fs, tmpFile(t), fault)
          IN  /\ fs' = r.fs
              /\ IF r.err # "nil"
                 THEN /\ printed' = [printed EXCEPT ![t] = report(r.err)]
                      /\ pc' = [pc EXCEPT ![t] = "reported"]
                 ELSE /\ printed' = printed
                      /\ pc' = [pc EXCEPT ![t] = "downloaded"]
  /\ url' = [url EXCEPT ![t] = buildURL(version, targets[t])]
  /\ UNCHANGED <<unitVars, mainpc, version, wg, sem>>

\* Extract whose error return skips the removal of the temp file
ExtractLeakingTmp(t) ==
  /\ pc[t] = "downloaded"
  /\ \E fault \in (IF extractorFor(targets[t]) = "zip"
                    THEN ZipFaults ELSE TarFaults) \cup {"none"} :
       /\ MayFail(fault)
       /\ faults' = Charge(fault)
       /\ LET r == IF extractorFor(targets[t]) = "zip"
                   THEN extractNodeFromZip(fs, tmpFile(t), exeFile(t), fault)
                   ELSE extractNodeFromTarXZ(fs, tmpFile(t), exeFile(t), fault)
          IN  /\ fs' = r.fs
              /\ IF r.err # "nil"
                 THEN /\ printed' = [printed EXCEPT ![t] = report(r.err)]
                      /\ pc' = [pc EXCEPT ![t] = "reported"]
                 ELSE /\ printed' = printed
                      /\ pc' = [pc EXCEPT ![t] = "extracted"]
  /\ UNCHANGED <<unitVars, mainpc, version, wg, sem, url>>

\* src/main.go:114-123, 73-77  extract the executable with the variant the
\* platform selects; on error processTarget returns it (the deferred
\* removal runs) and the failure line is printed
Extract(t) ==
  /\ pc[t] = "downloaded"
  /\ \E fault \in (IF extractorFor(targets[t]) = "zip"
                    THEN ZipFaults ELSE TarFaults) \cup {"none"} :
       /\ MayFail(fault)
       /\ faults' = Charge(fault)
       /\ LET r == IF extractorFor(targets[t]) = "zip"
                   THEN extractNodeFromZip(fs, tmpFile(t), exeFile(t), fault)
                   ELSE extractNodeFromTarXZ(fs, tmpFile(t), exeFile(t), fault)
          IN  IF r.err # "nil"
              THEN /\ fs' = deferRemoveTmp(r.fs, t)
                   /\ printed' = [printed EXCEPT ![t] = report(r.err)]
                   /\ pc' = [pc EXCEPT ![t] = "reported"]
              ELSE /\ fs' = r.fs
                   /\ printed' = printed
                   /\ pc' = [pc EXCEPT ![t] = "extracted"]
  /\ UNCHANGED <<unitVars, mainpc, version, wg, sem, url>>

\* the removal of the intermediate file left out
removeExeNever(files, outFile, e) == files

\* src/main.go:128  os.Remove(exeFile), reached only when compressZstd
\* returned nil
removeExeAfterCompress(files, outFile, e) ==
  IF e = "nil" THEN Remove(files, exeFile(outFile)) ELSE files

\* src/main.go:125-129, 73-77  compress, remove the intermediate file on
\* success, return (the deferred removal of the temp file runs) and print
\* the outcome line
Compress(t) ==
  /\ pc[t] = "extracted"
  /\ \E fault \in CompressFaults \cup {"none"} :
       /\ MayFail(fault)
       /\ faults' = Charge(fault)
       /\ LET r == compressZstd(fs, exeFile(t), outPath(t), fault)
          IN  /\ fs' = deferRemoveTmp(removeExeAfterCompress(r.fs, t, r.err), t)
              /\ printed' = [printed EXCEPT ![t] = report(r.err)]
  /\ pc' = [pc EXCEPT ![t] = "reported"]
  /\ UNCHANGED <<unitVars, mainpc, version, wg, sem, url>>

\* Release placed on the success path only instead of in a defer
ReleaseOnSuccessOnly(t) ==
  /\ pc[t] = "reported"
  /\ printed[t] = "ok"
  /\ sem' = sem - 1
  /\ pc' = [pc EXCEPT ![t] = "released"]
  /\ UNCHANGED <<unitVars, mainpc, version, wg, printed, url, fs, faults>>

\* the goroutine ends without receiving from sem
ReleaseWithoutReceive(t) ==
  /\ pc[t] = "reported"
  /\ sem' = sem
  /\ pc' = [pc EXCEPT ![t] = "released"]
  /\ UNCHANGED <<unitVars, mainpc, version, wg, printed, url, fs, faults>>

\* src/main.go:71  deferred func() { <-sem }()
Release(t) ==
  /\ pc[t] = "reported"
  /\ sem' = sem - 1
  /\ pc' = [pc EXCEPT ![t] = "released"]
  /\ UNCHANGED <<unitVars, mainpc, version, wg, printed, url, fs, faults>>

\* src/main.go:69  deferred wg.Done()
Done(t) ==
  /\ pc[t] = "released"
  /\ wg' = wg - 1
  /\ pc' = [pc EXCEPT ![t] = "done"]
  /\ UNCHANGED <<unitVars, mainpc, version, sem, printed, url, fs, faults>>

Task(t) ==
  \/ Acquire(t)
  \/ Download(t)
  \/ Extract(t)
  \/ Compress(t)
  \/ Release(t)
  \/ Done(t)

Next ==
  \/ Fetch
  \/ Launch
  \/ Finish
  \/ \E t \in Targets : Task(t)

Spec == Init /\ [][Next]_vars

\* the scheduler runs a goroutine that can take a step, and every stage
\* terminates
FairSpec == Spec /\ WF_vars(Next)

(* ---------------------------------------------------------------------- *)
(* The data path of one target on its own: version, URL, extractor        *)
(* ---------------------------------------------------------------------- *)

\* longest index explored
MaxIndexLen == 3

\* the descriptors an explored index is made of
Descriptors ==
  [version : {"v1", "v2"},
   lts : {LtsFalse, LtsNull, LtsTrue, LtsName("Hydrogen")}]

\* all sequences over S of length at most n
RECURSIVE SeqsUpTo(_, _)
SeqsUpTo(S, n) ==
  IF n = 0 THEN { << >> }
  ELSE LET shorter == SeqsUpTo(S, n - 1)
       IN  shorter \cup { Append(q, x) : q \in shorter, x \in S }

\* what the index endpoint may answer
AllIndexResponses ==
  { [status |-> "transport", body |-> << >>],
    [status |-> "decode",    body |-> << >>] }
  \cup { [status |-> "ok", body |-> b] : b \in SeqsUpTo(Descriptors, MaxIndexLen) }

DataPathInit ==
  /\ BatchInit
  /\ call \in [phase : {"start"}, index : AllIndexResponses,
                outFile : DOMAIN targets, version : {""}, err : {"nil"},
                url : {<< >>}, variant : {"none"}]
  /\ arc = Unused
  /\ stream = Unused

\* src/main.go:56-60  version, err := fetchLatestLTS(); panic on error
Resolve ==
  /\ call.phase = "start"
  /\ LET r == fetchLatestLTS(call.index)
     IN  call' = [call EXCEPT !.phase = IF r.err # "nil" THEN "panicked"
                                                         ELSE "resolved",
                              !.version = r.version,
                              !.err = r.err]
  /\ UNCHANGED <<batchVars, arc, stream>>

\* src/main.go:105  url := buildURL(version, platform)
BuildURL ==
  /\ call.phase = "resolved"
  /\ call' = [call EXCEPT !.phase = "urlbuilt",
                          !.url = buildURL(call.version, targets[call.outFile])]
  /\ UNCHANGED <<batchVars, arc, stream>>

\* src/main.go:115-123  the extractor is chosen from the platform
Dispatch ==
  /\ call.phase = "urlbuilt"
  /\ call' = [call EXCEPT !.phase = "dispatched",
                          !.variant = extractorFor(targets[call.outFile])]
  /\ UNCHANGED <<batchVars, arc, stream>>

DataPathNext ==
  \/ Resolve
  \/ BuildURL
  \/ Dispatch

DataPathSpec == DataPathInit /\ [][DataPathNext]_vars

(* ---------------------------------------------------------------------- *)
(* The extractors on the entries of an archive                            *)
(* ---------------------------------------------------------------------- *)

\* largest number of entries of an explored archive
MaxEntries == 3

\* strings.HasSuffix(s, suffix)
HasSuffix(s, suffix) ==
  /\ Len(s) >= Len(suffix)
  /\ SubSeq(s, Len(s) - Len(suffix) + 1, Len(s)) = suffix

\* src/main.go:168  "node.exe"
NodeExe == <<"n","o","d","e",".","e","x","e">>

\* src/main.go:210  "/bin/node"
BinNode == <<"/","b","i","n","/","n","o","d","e">>

\* entry names of the explored archives:
\* a/node.exe, b/readme.txt, xnode.exe, n/bin/node, n/LICENSE, bin/node
EntryNames ==
  { <<"a","/","n","o","d","e",".","e","x","e">>,
    <<"b","/","r","e","a","d","m","e",".","t","x","t">>,
    <<"x","n","o","d","e",".","e","x","e">>,
    <<"n","/","b","i","n","/","n","o","d","e">>,
    <<"n","/","L","I","C","E","N","S","E">>,
    <<"b","i","n","/","n","o","d","e">> }

\* the scan that keeps going after a match, so that the last match wins
RECURSIVE scanLast(_, _, _)
scanLast(names, suffix, i) ==
  IF i > Len(names) THEN 0
  ELSE LET later == scanLast(names, suffix, i + 1)
       IN  IF later # 0 THEN later
           ELSE IF HasSuffix(names[i], suffix) THEN i ELSE 0

\* src/main.go:167-168, 202-210  the loop over the entries from entry i
\* on: the index of the first entry whose name has the suffix, 0 when the
\* entries are exhausted
RECURSIVE scan(_, _, _)
scan(names, suffix, i) ==
  IF i > Len(names) THEN 0
  ELSE IF HasSuffix(names[i], suffix) THEN i
  ELSE scan(names, suffix, i + 1)

\* no file at the destination; otherwise << state, k >> is a file holding
\* (part of) the bytes of entry k
NoFile == <<"absent", 0>>

\* the calls that can fail in an extractor run on given entries
ZipCallFaults == ZipFaults \ {"node.exe not found"}
TarCallFaults == TarFaults \ {"bin/node not found"}

\* src/main.go:160-187  extractNodeFromZip on an archive whose directory
\* lists `names`; `copied` lists the entries whose bytes went to disk
extractNodeFromZipEntries(names, fault) ==
  IF fault = "zip.OpenReader"
  THEN [err |-> fault, dest |-> NoFile, copied |-> << >>]
  ELSE LET k == scan(names, NodeExe, 1)
       IN  IF k = 0
           THEN [err |-> "node.exe not found", dest |-> NoFile, copied |-> << >>]
           ELSE IF fault \in {"zip.File.Open", "os.Create(exe)"}
           THEN [err |-> fault, dest |-> NoFile, copied |-> << >>]
           ELSE IF fault = "io.Copy(extract)"
           THEN [err |-> fault, dest |-> <<"partial", k>>, copied |-> <<k>>]
           ELSE [err |-> "nil", dest |-> <<"complete", k>>, copied |-> <<k>>]

\* src/main.go:189-223  extractNodeFromTarXZ on a tar stream of entries
\* `names`; a failing tr.Next fails on its call number `at`, if the scan
\* gets that far
extractNodeFromTarXZEntries(names, fault, at) ==
  IF fault \in {"os.Open(tmp)", "xz.NewReader"}
  THEN [err |-> fault, dest |-> NoFile, copied |-> << >>]
  ELSE LET k == scan(names, BinNode, 1)
           calls == IF k = 0 THEN Len(names) + 1 ELSE k
       IN  IF fault = "tar.Next" /\ at <= calls
           THEN [err |-> fault, dest |-> NoFile, copied |-> << >>]
           ELSE IF k = 0
           THEN [err |-> "bin/node not found", dest |-> NoFile, copied |-> << >>]
           ELSE IF fault = "os.Create(exe)"
           THEN [err |-> fault, dest |-> NoFile, copied |-> << >>]
           ELSE IF fault = "io.Copy(extract)"
           THEN [err |-> fault, dest |-> <<"partial", k>>, copied |-> <<k>>]
           ELSE [err |-> "nil", dest |-> <<"complete", k>>, copied |-> <<k>>]

\* the runs explored: a variant, the entries, the call that fails if it is
\* reached, and for tr.Next the number of the failing call
ExtractRuns ==
  { [phase |-> "start", variant |-> "zip", names |-> n, fault |-> f, at |-> 0,
     err |-> "nil", dest |-> NoFile, copied |-> << >>] :
      n \in SeqsUpTo(EntryNames, MaxEntries), f \in ZipCallFaults \cup {"none"} }
  \cup
  { [phase |-> "start", variant |-> "tar.xz", names |-> n, fault |-> f, at |-> 0,
     err |-> "nil", dest |-> NoFile, copied |-> << >>] :
      n \in SeqsUpTo(EntryNames, MaxEntries),
      f \in (TarCallFaults \ {"tar.Next"}) \cup {"none"} }
  \cup
  { [phase |-> "start", variant |-> "tar.xz", names |-> n, fault |-> "tar.Next",
     at |-> a, err |-> "nil", dest |-> NoFile, copied |-> << >>] :
      n \in SeqsUpTo(EntryNames, MaxEntries), a \in 1..(MaxEntries + 1) }

ExtractInit ==
  /\ BatchInit
  /\ call = Unused
  /\ arc \in ExtractRuns
  /\ stream = Unused

\* src/main.go:116  extractNodeFromZip(tmpFile, exeFile, platform)
ExtractZip ==
  /\ arc.phase = "start"
  /\ arc.variant = "zip"
  /\ LET r == extractNodeFromZipEntries(arc.names, arc.fault)
     IN  arc' = [arc EXCEPT !.phase = "returned", !.err = r.err,
                           !.dest = r.dest, !.copied = r.copied]
  /\ UNCHANGED <<batchVars, call, stream>>

\* src/main.go:120  extractNodeFromTarXZ(tmpFile, exeFile, platform)
ExtractTar ==
  /\ arc.phase = "start"
  /\ arc.variant = "tar.xz"
  /\ LET r == extractNodeFromTarXZEntries(arc.names, arc.fault, arc.at)
     IN  arc' = [arc EXCEPT !.phase = "returned", !.err = r.err,
                           !.dest = r.dest, !.copied = r.copied]
  /\ UNCHANGED <<batchVars, call, stream>>

ExtractNext ==
  \/ ExtractZip
  \/ ExtractTar

ExtractSpec == ExtractInit /\ [][ExtractNext]_vars

(* ---------------------------------------------------------------------- *)
(* The progress reporter on one stream                                    *)
(* ---------------------------------------------------------------------- *)

\* most Write calls of an explored stream
MaxWrites == 3

\* most bytes handed to one Write call
MaxChunk == 2

\* most bytes of an explored stream
MaxTotal == 3

\* src/main.go:47  300*time.Millisecond, in ticks of 100 ms
Throttle == 3

\* the time between two readings of time.Now(), in ticks
Gaps == {0, Throttle, Throttle + 1}

\* src/main.go:154  resp.ContentLength when the response declares none
UnknownLength == 0 - 1

\* src/main.go:39  the zero time.Time of a fresh ProgressWriter
ZeroTime == [zero |-> TRUE, at |-> 0]

\* src/main.go:47  now.Sub(pw.LastUpdate) > 300*time.Millisecond; the
\* distance to the zero time saturates at the largest duration
Elapsed(now, last) == last.zero \/ now - last.at > Throttle

\* src/main.go:49-50  float64(Written) / float64(Total) * 100 printed with
\* one decimal: tenths of a percent, +Inf on a zero Total
percent(Written, Total) ==
  IF Total = 0
  THEN [class |-> "+Inf", tenths |-> 0]
  ELSE [class |-> "finite", tenths |-> (Written * 1000) \div Total]

\* src/main.go:154, 232, 245  the streams explored: the Total of the
\* reporter is the declared content length (download) or the size of
\* the extracted file (compression); `size` is the number of bytes the
\* source delivers when the copy is not cut short
Streams ==
  { [kind |-> "download", Total |-> UnknownLength, size |-> z] : z \in 0..MaxTotal }
  \cup
  { [kind |-> k, Total |-> z, size |-> z] :
      k \in {"download", "compress"}, z \in 0..MaxTotal }

ProgressInit ==
  /\ BatchInit
  /\ call = Unused
  /\ arc = Unused
  /\ \E st \in Streams :
       stream = [kind |-> st.kind, Total |-> st.Total, size |-> st.size,
                 Written |-> 0, LastUpdate |-> ZeroTime, now |-> 0,
                 writes |-> 0, emitted |-> << >>, phase |-> "copying"]

\* src/main.go:43-53  ProgressWriter.Write on a chunk of n bytes, called by
\* the tee reader of io.Copy (lines 155, 246) for a read of n > 0 bytes
Write ==
  /\ stream.phase = "copying"
  /\ stream.writes < MaxWrites
  /\ \E n \in 1..MaxChunk, gap \in Gaps :
       /\ stream.Written + n <= stream.size
       /\ LET now == stream.now + gap
              Written == stream.Written + n
          IN  stream' =
                IF Elapsed(now, stream.LastUpdate)
                THEN [stream EXCEPT
                        !.Written = Written, !.now = now,
                        !.writes = @ + 1,
                        !.LastUpdate = [zero |-> FALSE, at |-> now],
                        !.emitted = Append(@,
                          [kind |-> "percent", written |-> Written,
                           value |-> percent(Written, stream.Total)])]
                ELSE [stream EXCEPT
                        !.Written = Written, !.now = now, !.writes = @ + 1]
  /\ UNCHANGED <<batchVars, call, arc>>

\* the final line, were it printed through the throttle of Write
CloseThrottled ==
  /\ stream.phase = "copying"
  /\ stream' =
       IF Elapsed(stream.now, stream.LastUpdate)
       THEN [stream EXCEPT !.phase = "closed",
               !.emitted = Append(@,
                 [kind |-> "100%", written |-> stream.Written,
                  value |-> [class |-> "finite", tenths |-> 1000]])]
       ELSE [stream EXCEPT !.phase = "closed"]
  /\ UNCHANGED <<batchVars, call, arc>>

\* src/main.go:155-157, 246-248  io.Copy returns, at the end of the source
\* or on an error before it, and the "100%" line is printed
Close ==
  /\ stream.phase = "copying"
  /\ stream' = [stream EXCEPT !.phase = "closed",
                  !.emitted = Append(@,
                    [kind |-> "100%", written |-> stream.Written,
                     value |-> [class |-> "finite", tenths |-> 1000]])]
  /\ UNCHANGED <<batchVars, call, arc>>

ProgressNext ==
  \/ Write
  \/ Close

ProgressSpec == ProgressInit /\ [][ProgressNext]_vars

(* ---------------------------------------------------------------------- *)
(* Properties                                                             *)
(* ---------------------------------------------------------------------- *)

\* the task of t is between its slot acquire and its slot release
Holding(t) == pc[t] \in {"acquired", "downloaded", "extracted", "reported"}

\* processTarget has returned for t and its outcome line is printed
Ended(t) == pc[t] \in {"reported", "released", "done"}

\* a file exists at the path
Exists(path) == fs[path] # "absent"

\* C1: in every reachable state of a batch at most 3 target tasks are
\* between slot acquire and slot release, whatever the interleaving.
C1_SlotBound == Cardinality({t \in Targets : Holding(t)}) <= 3

\* all three slots are taken while another task is blocked on the channel
C1_Witness ==
  /\ Cardinality({t \in Targets : Holding(t)}) = 3
  /\ \E t \in Targets : pc[t] = "waiting"

\* C2: the batch-complete marker is printed only when every target has
\* run all of its goroutine (wg.Done included) and printed its outcome
\* line; no target is then waiting for a slot or inside a stage, failed
\* targets included.
C2_MarkerAfterAllOutcomes ==
  mainpc = "done" =>
    \A t \in Targets : pc[t] = "done" /\ printed[t] # "none"

\* the marker is printed after a batch in which one target failed
C2_Witness ==
  /\ mainpc = "done"
  /\ \E t \in Targets : printed[t] \notin {"none", "ok"}
  /\ \E t \in Targets : printed[t] = "ok"

\* C3: once the tasks are launched, and whichever targets fail, every
\* target eventually acquires, ends with its own outcome line and
\* finishes, and the batch-complete marker is eventually printed (fair
\* scheduling, every stage terminating).
C3_AllTargetsTerminate ==
  (mainpc = "wait") ~>
    (/\ mainpc = "done"
     /\ \A t \in Targets : pc[t] = "done" /\ printed[t] # "none")

\* after one target failed and finished, a sibling that was still waiting
\* holds a slot and is about to run its pipeline
C3_Witness ==
  \E f, t \in Targets :
    /\ f # t
    /\ pc[f] = "done" /\ printed[f] \in {"download", "extract", "compress"}
    /\ pc[t] = "acquired"

\* nothing of any target has happened
NoTargetStarted ==
  /\ \A t \in Targets : pc[t] = "idle" /\ printed[t] = "none" /\ url[t] = << >>
  /\ \A p \in Paths : ~Exists(p)
  /\ sem = 0 /\ wg = 0

\* C4: the version is resolved once, before any task is launched (main
\* leaves "fetch" for good, the version is set only by that step and
\* every launched task sees it); when resolution fails nothing of any
\* target has happened and main takes no further step, so that no
\* pipeline starts and no batch-complete marker is printed.
C4_VersionBeforeTargets ==
  /\ [](/\ mainpc \in {"fetch", "panicked"} => NoTargetStarted
        /\ (\E t \in Targets : pc[t] # "idle") => version # "")
  /\ [][/\ version' # version => mainpc = "fetch" /\ mainpc' = "launch"
        /\ mainpc # "fetch" => mainpc' # "fetch"
        /\ mainpc # "panicked"]_vars

\* version resolution failed and main panicked
C4_Witness == mainpc = "panicked" /\ version = ""

\* C5 (as claimed): a complete artifact is at the output path only after a
\* successful run, and after a run in which a stage failed no file exists
\* at the output path.
C5_NoOutputUnlessSuccess ==
  \A t \in Targets :
    /\ fs[outPath(t)] = "complete" => printed[t] = "ok"
    /\ (Ended(t) /\ printed[t] # "ok") => ~Exists(outPath(t))

\* C6 (as claimed): when the pipeline of a target has ended, no file exists
\* at its temp path, whatever the outcome.
C6_TmpGoneAtEnd ==
  \A t \in Targets : Ended(t) => ~Exists(tmpFile(t))

\* C7: after a pipeline whose download succeeded (it ended in success, in
\* an extraction failure or in a compression failure) no file exists at
\* the temp path.
C7_TmpGoneAfterDownload ==
  \A t \in Targets :
    (Ended(t) /\ printed[t] \in {"ok", "extract", "compress"})
      => ~Exists(tmpFile(t))

\* a pipeline ended in a compression failure, another one in success
C7_Witness ==
  \E a, b \in Targets :
    /\ Ended(a) /\ printed[a] = "compress"
    /\ Ended(b) /\ printed[b] = "ok"

\* C8 (as claimed): after a pipeline that reached compression, no file
\* exists at the intermediate path, whether compression succeeded or not.
C8_ExeGoneAfterCompress ==
  \A t \in Targets :
    (Ended(t) /\ printed[t] \in {"ok", "compress"}) => ~Exists(exeFile(t))

\* C9: after a pipeline that failed at extraction (no output file existed
\* before the run) there is no output file and no temp file.
C9_ExtractFailureLeavesNoOutputNoTmp ==
  \A t \in Targets :
    (Ended(t) /\ printed[t] = "extract")
      => ~Exists(outPath(t)) /\ ~Exists(tmpFile(t))

\* extraction failed while copying the entry
C9_Witness ==
  \E t \in Targets :
    Ended(t) /\ printed[t] = "extract" /\ fs[exeFile(t)] = "partial"

\* C10: after a batch in which every target succeeded, the files that
\* exist are exactly the output files of the targets.
C10_OnlyOutputsRemain ==
  (mainpc = "done" /\ \A t \in Targets : printed[t] = "ok")
    => \A p \in Paths : Exists(p) <=> p[2] = ""

\* a batch ended with every target successful and its output complete
C10_Witness ==
  /\ mainpc = "done"
  /\ \A t \in Targets : printed[t] = "ok" /\ fs[outPath(t)] = "complete"

\* the steps a goroutine's position can take
PcSteps ==
  { <<"idle", "waiting">>, <<"waiting", "acquired">>,
    <<"acquired", "downloaded">>, <<"acquired", "reported">>,
    <<"downloaded", "extracted">>, <<"downloaded", "reported">>,
    <<"extracted", "reported">>,
    <<"reported", "released">>, <<"released", "done">> }

\* C11: within one target the stages run in the order build-URL,
\* download, extract, compress: the temp file is written only by a task
\* that has just acquired, the intermediate file only after a complete
\* download with the URL built, the output only after a complete
\* extraction; a failing stage ends the pipeline with that stage's
\* failure and no later stage touches anything.
C11_StagesInOrder ==
  /\ [](\A t \in Targets :
         /\ pc[t] \in {"idle", "waiting", "acquired"} =>
              /\ url[t] = << >> /\ printed[t] = "none"
              /\ \A x \in Suffixes : ~Exists(<<t, x>>)
         /\ pc[t] = "downloaded" =>
              /\ url[t] # << >> /\ fs[tmpFile(t)] = "complete"
              /\ ~Exists(exeFile(t)) /\ ~Exists(outPath(t))
         /\ pc[t] = "extracted" =>
              /\ fs[tmpFile(t)] = "complete" /\ fs[exeFile(t)] = "complete"
              /\ ~Exists(outPath(t))
         /\ (Ended(t) /\ printed[t] = "download") =>
              ~Exists(exeFile(t)) /\ ~Exists(outPath(t))
         /\ (Ended(t) /\ printed[t] = "extract") => ~Exists(outPath(t)))
  /\ [][\A t \in Targets :
          /\ pc'[t] # pc[t] => <<pc[t], pc'[t]>> \in PcSteps
          /\ (pc[t] = "acquired" /\ pc'[t] = "reported")
               => printed'[t] = "download"
          /\ (pc[t] = "downloaded" /\ pc'[t] = "reported")
               => printed'[t] = "extract"
          /\ (pc[t] = "extracted" /\ pc'[t] = "reported")
               => printed'[t] \in {"ok", "compress"}
          /\ Ended(t) =>
               /\ printed'[t] = printed[t] /\ url'[t] = url[t]
               /\ \A x \in Suffixes : fs'[<<t, x>>] = fs[<<t, x>>]]_vars

\* one target is between extraction and compression while the pipeline
\* of another one has ended in an extraction failure
C11_Witness ==
  \E a, b \in Targets :
    /\ pc[a] = "extracted"
    /\ Ended(b) /\ printed[b] = "extract"

\* how far the goroutine of a target has come
Rank(p) ==
  CASE p = "idle" -> 0 [] p = "waiting" -> 1 [] p = "acquired" -> 2
    [] p = "downloaded" -> 3 [] p = "extracted" -> 4 [] p = "reported" -> 5
    [] p = "released" -> 6 [] p = "done" -> 7

\* C12: no stage runs twice for a target (its position only advances) and
\* a target gets exactly one outcome line, set once when its pipeline
\* ends: a stage in which no call failed hands over to the next stage, or
\* to success after compression; a failure line names the stage that has
\* just run, the first one in which a call failed.  (The one failing call
\* that is not returned, the encoder's deferred Close, leaves success.)
C12_OneOutcomeFirstFailure ==
  /\ [](\A t \in Targets : Ended(t) <=> printed[t] # "none")
  /\ [][\A t \in Targets :
          /\ pc'[t] # pc[t] => Rank(pc'[t]) > Rank(pc[t])
          /\ printed'[t] # printed[t] => printed[t] = "none"
          /\ (pc[t] = "acquired" /\ pc'[t] # pc[t]) =>
               IF faults' = faults
               THEN pc'[t] = "downloaded" /\ printed'[t] = "none"
               ELSE pc'[t] = "reported" /\ printed'[t] = "download"
          /\ (pc[t] = "downloaded" /\ pc'[t] # pc[t]) =>
               IF faults' = faults
               THEN pc'[t] = "extracted" /\ printed'[t] = "none"
               ELSE pc'[t] = "reported" /\ printed'[t] = "extract"
          /\ (pc[t] = "extracted" /\ pc'[t] # pc[t]) =>
               IF faults' = faults
               THEN printed'[t] = "ok"
               ELSE \/ printed'[t] = "compress"
                    \/ printed'[t] = "ok" /\ fs'[outPath(t)] = "partial"]_vars

\* one target has finished with a download failure, another with success
C12_Witness ==
  \E a, b \in Targets :
    /\ pc[a] = "done" /\ printed[a] = "download"
    /\ pc[b] = "done" /\ printed[b] = "ok"

\* C13 (as claimed): a target is reported successful only if its
\* compressor stream was finalized, that is its output file is complete.
C13_SuccessOnlyIfFinalized ==
  \A t \in Targets : printed[t] = "ok" => fs[outPath(t)] = "complete"

\* C18: the number of tokens in the channel equals the number of tasks
\* between acquire and release and is 0 when the batch-complete marker is
\* printed; a task's URL, files and outcome line change only in steps
\* that start and end with the task holding its slot; a task acquires
\* only from waiting, which it enters once, and releases only after its
\* outcome line, on the success and on the failure path alike.
C18_PipelineOnlyWhileHolding ==
  /\ [](/\ sem = Cardinality({t \in Targets : Holding(t)})
        /\ mainpc = "done" => sem = 0)
  /\ [][\A t \in Targets :
          /\ (\/ url'[t] # url[t]
              \/ printed'[t] # printed[t]
              \/ \E x \in Suffixes : fs'[<<t, x>>] # fs[<<t, x>>])
               => Holding(t) /\ Holding(t)'
          /\ (~Holding(t) /\ Holding(t)')
               => pc[t] = "waiting" /\ sem' = sem + 1
          /\ (Holding(t) /\ ~Holding(t)')
               => /\ pc[t] = "reported" /\ printed[t] # "none"
                  /\ sem' = sem - 1
          /\ (pc'[t] = "waiting" /\ pc[t] # "waiting") => pc[t] = "idle"]_vars

\* a failed target has released its slot while others still hold theirs
C18_Witness ==
  /\ \E t \in Targets :
       pc[t] = "released" /\ printed[t] \in {"download", "extract", "compress"}
  /\ sem = 2

\* C19: the temp, intermediate and output paths derived for the entries
\* of the matrix are pairwise distinct (3 per entry); a file exists only
\* at paths of a target whose own pipeline has run its download; a step
\* changes the files, URL and outcome line of the one target that takes
\* it and of no other, so that each target in flight has its single temp
\* file and single intermediate file.
C19_NoSharedPaths ==
  /\ [](/\ Cardinality({tmpFile(o) : o \in DOMAIN targets}
                          \cup {exeFile(o) : o \in DOMAIN targets}
                          \cup {outPath(o) : o \in DOMAIN targets})
             = 3 * Cardinality(DOMAIN targets)
        /\ \A p \in Paths :
             Exists(p) => pc[p[1]] \notin {"idle", "waiting", "acquired"})
  /\ [][\A t \in Targets :
          (\/ url'[t] # url[t]
           \/ printed'[t] # printed[t]
           \/ \E x \in Suffixes : fs'[<<t, x>>] # fs[<<t, x>>])
            => /\ pc'[t] # pc[t]
               /\ \A o \in Targets \ {t} :
                    /\ pc'[o] = pc[o] /\ url'[o] = url[o]
                    /\ printed'[o] = printed[o]
                    /\ \A x \in Suffixes : fs'[<<o, x>>] = fs[<<o, x>>]]_vars

\* three targets are in flight at once, each with its own files
C19_Witness ==
  \E a, b, c \in Targets :
    /\ pc[a] = "downloaded" /\ fs[tmpFile(a)] = "complete"
    /\ pc[b] = "extracted" /\ fs[exeFile(b)] = "complete"
    /\ pc[c] = "extracted" /\ fs[tmpFile(c)] = "complete"
    /\ b # c

\* the platform identifier starts with "win"
StartsWithWin(platform) ==
  /\ Len(platform) >= 3
  /\ platform[1] = "w" /\ platform[2] = "i" /\ platform[3] = "n"

\* C14: for every platform of the matrix the URL built is
\* <base>/<version>/node-<version>-<platform><ext>, with ext ".zip" iff
\* the platform starts with "win" and ".tar.xz" otherwise, and the
\* extractor chosen is the zip one iff the URL ends in ".zip", the
\* tar.xz one otherwise.
C14_UrlAndExtractorAgree ==
  call.phase \in {"urlbuilt", "dispatched"} =>
    LET platform == targets[call.outFile]
        ext == call.url[Len(call.url)]
    IN  /\ call.url = << "https://nodejs.org/dist/", call.version, "/node-",
                         call.version, "-", platform, ext >>
        /\ ext \in {".zip", ".tar.xz"}
        /\ ext = ".zip" <=> StartsWithWin(platform)
        /\ call.phase = "dispatched" =>
             /\ call.variant \in {"zip", "tar.xz"}
             /\ call.variant = "zip" <=> ext = ".zip"

\* the zip extractor is chosen for win-x86, whose URL ends in ".zip"
C14_Witness ==
  /\ call.phase = "dispatched"
  /\ call.outFile = "node_windows_i386"
  /\ call.variant = "zip"
  /\ call.version = "v2"

\* the LTS field is neither the boolean false nor null/absent
IsLTS(d) == ~(d.lts[1] = "bool" /\ d.lts[2] = "false") /\ d.lts[1] # "null"

\* C15: for every decoded sequence of descriptors the resolver returns
\* the version of the first descriptor whose LTS field is neither false
\* nor null, and fails with the not-found error iff there is none.
C15_FirstLtsInOrder ==
  (call.phase # "start" /\ call.index.status = "ok") =>
    LET body == call.index.body
    IN  /\ call.err \in {"nil", "no LTS version found"}
        /\ call.err = "no LTS version found"
             <=> \A i \in 1..Len(body) : ~IsLTS(body[i])
        /\ call.err = "nil" =>
             \E i \in 1..Len(body) :
               /\ IsLTS(body[i])
               /\ call.version = body[i].version
               /\ \A j \in 1..(i - 1) : ~IsLTS(body[j])

\* [{v1, lts:false}, {v2, lts:"Hydrogen"}, {v1, lts:"Hydrogen"}] gives v2
C15_Witness ==
  /\ call.phase = "resolved"
  /\ call.index.body = << [version |-> "v1", lts |-> LtsFalse],
                          [version |-> "v2", lts |-> LtsName("Hydrogen")],
                          [version |-> "v1", lts |-> LtsName("Hydrogen")] >>
  /\ call.version = "v2"

\* the last characters of name are those of suffix
EndsWith(name, suffix) ==
  /\ Len(name) >= Len(suffix)
  /\ \A i \in 1..Len(suffix) : name[Len(name) - Len(suffix) + i] = suffix[i]

\* the entries of the run that are the first one with the expected name
FirstNamed ==
  LET suffix == IF arc.variant = "zip" THEN NodeExe ELSE BinNode
  IN  { i \in 1..Len(arc.names) :
          /\ EndsWith(arc.names[i], suffix)
          /\ \A j \in 1..(i - 1) : ~EndsWith(arc.names[j], suffix) }

\* C16: an extractor copies at most one entry to disk, the first whose
\* name ends with node.exe (zip) or /bin/node (tar), and a destination
\* file holds only that entry's bytes; it returns nil only with that
\* entry written to its end, which is what happens when no call fails;
\* when no entry has the name it fails without creating the destination,
\* with the not-found error once the scan has run through.
C16_ExactlyTheFirstNamedEntry ==
  arc.phase = "returned" =>
    /\ Len(arc.copied) <= 1
    /\ \A i \in 1..Len(arc.copied) : arc.copied[i] \in FirstNamed
    /\ arc.dest # NoFile => arc.copied = << arc.dest[2] >>
    /\ arc.err = "nil" =>
         \E k \in FirstNamed : arc.dest = <<"complete", k>>
    /\ (arc.fault = "none" /\ FirstNamed # {}) => arc.err = "nil"
    /\ FirstNamed = {} =>
         /\ arc.dest = NoFile /\ arc.copied = << >>
         /\ arc.err # "nil"
         /\ arc.fault \in {"none", "zip.File.Open", "os.Create(exe)",
                            "io.Copy(extract)"}
              => arc.err \in {"node.exe not found", "bin/node not found"}
    /\ arc.err \in {"node.exe not found", "bin/node not found"}
         => FirstNamed = {}

\* the zip archive [a/node.exe, b/readme.txt, xnode.exe]: the bytes of
\* a/node.exe, and only these, are at the destination
C16_Witness ==
  /\ arc.phase = "returned"
  /\ arc.variant = "zip"
  /\ Len(arc.names) = 3
  /\ EndsWith(arc.names[1], NodeExe) /\ ~EndsWith(arc.names[2], NodeExe)
  /\ EndsWith(arc.names[3], NodeExe)
  /\ arc.err = "nil" /\ arc.dest = <<"complete", 1>> /\ arc.copied = <<1>>

\* C17: the last progress emission of a stream, download or compression,
\* is the 100% marker: once the copy is over the marker is the last line
\* and every line before it is a throttled percentage, whether the last
\* Write printed or not and whether any Write printed at all; while the
\* copy runs no marker has been printed.
C17_MarkerIsLastEmission ==
  LET e == stream.emitted
  IN  /\ stream.phase = "closed" =>
           /\ Len(e) >= 1
           /\ e[Len(e)].kind = "100%"
           /\ \A i \in 1..(Len(e) - 1) : e[i].kind = "percent"
      /\ stream.phase = "copying" =>
           \A i \in 1..Len(e) : e[i].kind = "percent"

\* a stream of three writes of which only the first printed a percentage
\* is closed: the marker follows that percentage
C17_Witness ==
  /\ stream.phase = "closed"
  /\ stream.writes = 3
  /\ Len(stream.emitted) = 2
  /\ stream.emitted[1].kind = "percent"
  /\ stream.emitted[1].written < stream.Written
  /\ stream.emitted[2].kind = "100%"

\* a stream closed before any Write: the marker is the only line
C17_WitnessNoPercentage ==
  /\ stream.phase = "closed"
  /\ stream.writes = 0
  /\ Len(stream.emitted) = 1

\* C20: on a stream whose total is unknown or zero the reporter prints no
\* percentage computed from Written / Total.
C20_NoPercentageWithoutTotal ==
  stream.Total <= 0 =>
    \A i \in 1..Len(stream.emitted) : stream.emitted[i].kind # "percent"

====
